---- MODULE Spec2Model ----
(***************************************************************************)
(* Feed synchronisation and feed store of the bookmarks service            *)
(* (storage/feeds.go and the feeds table of the schema).                   *)
(*                                                                         *)
(* Times are natural numbers counted in days; 0 is Go's zero time.Time.    *)
(* Strings are strings, "" the empty string.  A Feed is a record with the  *)
(* fields of the Go struct, a table row a record with the columns of the   *)
(* feeds table.                                                            *)
(***************************************************************************)
EXTENDS Integers, Sequences, FiniteSets, Bags, TLC

VARIABLES
    feed,       \* the Feed in memory that Fetch works on
    table,      \* the rows of the feeds table, in rowid order
    now,        \* the wall clock, what time.Now() returns
    nextID,     \* number of identifiers generateUUID has handed out
    pc,         \* "idle", or "inflight" while Fetch waits in client.Do
    request,    \* the conditional headers of the request in flight
    cancelled,  \* whether the context given to the Fetch in flight is cancelled
    last,       \* record of the most recent call: its arguments and its result
    procs,      \* the calls of concurrent callers: where each stands, its Feed
    bases,      \* the rows of the indexed tables (bookmarks, thoughts)
    fts         \* the entries of their full-text indexes

vars == <<feed, table, now, nextID, pc, request, cancelled, last, procs, bases, fts>>

---------------------------------------------------------------------------
(* Bounds of the model *)

MaxClock == 9       \* the clock stops advancing here
MaxEntries == 2     \* entries in one parsed feed document
MaxItems == 2       \* items one in-memory feed may hold

(* Program constants *)

Week == 7           \* time.Hour * 24 * 7, in days

ClockStart == Week + 1

---------------------------------------------------------------------------
(* time.Time *)

IsZero(t) == t = 0
Before(a, b) == a < b
After(a, b) == a > b

(* generateUUID: identifiers are fresh, the n-th one is n in decimal *)
generateUUID(n) == "id" \o ToString(n)

(* A Go pointer to a time.Time: <<>> is nil, <<t>> points at t *)
Nil == <<>>
Ptr(t) == <<t>>
Deref(p) == p[1]

(* Tags (a slice of strings): the nil slice, or the set of its elements *)
NilTags == [nil |-> TRUE, elems |-> {}]
TagsOf(S) == [nil |-> FALSE, elems |-> S]

(* A URL http.NewRequest cannot parse *)
BadURL == "%zz"

ZeroFeed ==
    [ID |-> "", Created |-> 0, Updated |-> 0, Refreshed |-> 0, LastAuthored |-> 0,
     Title |-> "", URL |-> "", Etag |-> "", Tags |-> NilTags, Items |-> <<>>]

NoCall == [op |-> "none"]

(* no concurrent caller; no row in an indexed table or its index *)
NoProcs == <<>>
NoRows == <<>>

---------------------------------------------------------------------------
(* Feed.Fetch *)

RECURSIVE Sum(_)
Sum(s) == IF s = <<>> THEN 0 ELSE Head(s) + Sum(Tail(s))

(* The clock reading while entry i of a parsed document is examined: the   *)
(* clock at the start of the call plus the ticks that passed since.        *)
Reading(t0, ticks, i) == t0 + Sum(SubSeq(ticks, 1, i - 1))

(* item.PublishedParsed, else item.UpdatedParsed, else time.Now() *)
EntryDate(e, t) ==
    IF e.pub # Nil THEN Deref(e.pub)
    ELSE IF e.upd # Nil THEN Deref(e.upd)
    ELSE t

(* Lines 116-120, the two `continue` branches negated: the entry is        *)
(* appended when its date is neither before the cutoff nor after the clock *)
AcceptedMutantStrictCutoff(date, refreshed, t) ==
    After(date, refreshed) /\ ~ After(date, t)

Accepted(date, refreshed, t) ==
    ~ Before(date, refreshed) /\ ~ After(date, t)

(* The FeedItem built from a parsed entry.  Title, Content, Created and     *)
(* Updated are written here and read by no operation of the store; the     *)
(* model keeps the fields the merge and DeleteItem read.                   *)
NewItem(e, id, t) ==
    [ID |-> id, URL |-> e.link, Date |-> EntryDate(e, t)]

(* The loop over parsedFeed.Items from entry i on: every entry takes an    *)
(* identifier, the accepted ones are appended.                             *)
RECURSIVE MergeEntries(_, _, _, _, _, _, _)
MergeEntries(items, entries, i, refreshed, t0, ticks, n) ==
    IF i > Len(entries) THEN items
    ELSE LET t == Reading(t0, ticks, i)
             it == NewItem(entries[i], generateUUID(n + i), t)
         IN MergeEntries(IF Accepted(it.Date, refreshed, t)
                            THEN Append(items, it) ELSE items,
                         entries, i + 1, refreshed, t0, ticks, n)

(* sort.SliceStable with less(i, j) = Items[i].Date.After(Items[j].Date):  *)
(* x goes behind every element that does not sort after it.                *)
InsertByDateMutantBeforeTies(s, x) ==
    LET k == Cardinality({j \in 1..Len(s) : After(s[j].Date, x.Date)})
    IN SubSeq(s, 1, k) \o <<x>> \o SubSeq(s, k + 1, Len(s))

InsertByDate(s, x) ==
    LET k == Cardinality({j \in 1..Len(s) : ~ After(x.Date, s[j].Date)})
    IN SubSeq(s, 1, k) \o <<x>> \o SubSeq(s, k + 1, Len(s))

RECURSIVE SortStable(_, _)
SortStable(sorted, rest) ==
    IF rest = <<>> THEN sorted
    ELSE SortStable(InsertByDate(sorted, Head(rest)), Tail(rest))


(* time.Time.UTC().Format(time.RFC1123): the text of the time *)
FormatRFC1123(t) == ToString(t) \o " UTC"

(* Lines 58-67: the request headers; Header.Set of If-None-Match when the  *)
(* feed has an Etag, else of If-Modified-Since when Refreshed is not zero. *)
FetchRequestMutantBothHeaders(f) ==
    ("User-Agent" :> "defaultUserAgent")
    @@ (IF f.Etag # "" THEN ("If-None-Match" :> f.Etag) ELSE <<>>)
    @@ (IF ~ IsZero(f.Refreshed)
           THEN ("If-Modified-Since" :> FormatRFC1123(f.Refreshed)) ELSE <<>>)

FetchRequest(f) ==
    LET base == ("User-Agent" :> "defaultUserAgent")
    IN IF f.Etag # ""
          THEN base @@ ("If-None-Match" :> f.Etag)
       ELSE IF ~ IsZero(f.Refreshed)
          THEN base @@ ("If-Modified-Since" :> FormatRFC1123(f.Refreshed))
       ELSE base

NoRequest == <<>>

(* Lines 43-56: the returns before any I/O.  "" means the call goes on.    *)
FetchPrecheck(f) ==
    IF f.URL = "" THEN "ErrNoFeedURL"
    ELSE IF f.URL = BadURL THEN "error"
    ELSE ""

(* Lines 77-79: a 304 returns at once *)
FetchNotModifiedMutantTouch(f, t) == [f EXCEPT !.Refreshed = t]

FetchNotModified(f, t) == f

(* Lines 125-138: what follows the loop when the document parsed.          *)
(* resp.updated is parsedFeed.Updated != "", resp.updatedParsed is         *)
(* parsedFeed.UpdatedParsed.                                               *)
FetchFinishMutantOverwriteTitle(f, resp, tEnd) ==
    LET f1 == IF resp.updated
                 THEN [f EXCEPT !.LastAuthored = Deref(resp.updatedParsed)]
                 ELSE f
        f2 == [f1 EXCEPT !.Etag = resp.etag, !.Refreshed = tEnd,
                         !.Title = resp.title]
    IN [f2 EXCEPT !.Items = SortStable(<<>>, f2.Items)]

FetchFinishMutantPrefersParsedTitle(f, resp, tEnd) ==
    LET f1 == IF resp.updated
                 THEN [f EXCEPT !.LastAuthored = Deref(resp.updatedParsed)]
                 ELSE f
        f2 == [f1 EXCEPT !.Etag = resp.etag, !.Refreshed = tEnd]
        f3 == IF resp.title # "" THEN [f2 EXCEPT !.Title = resp.title] ELSE f2
    IN [f3 EXCEPT !.Items = SortStable(<<>>, f3.Items)]

FetchFinishMutantKeepsRefreshed(f, resp, tEnd) ==
    LET f1 == IF resp.updated
                 THEN [f EXCEPT !.LastAuthored = Deref(resp.updatedParsed)]
                 ELSE f
        f2 == [f1 EXCEPT !.Etag = resp.etag]
        f3 == IF f2.Title = "" THEN [f2 EXCEPT !.Title = resp.title] ELSE f2
    IN [f3 EXCEPT !.Items = SortStable(<<>>, f3.Items)]

FetchFinish(f, resp, tEnd) ==
    LET f1 == IF resp.updated
                 THEN [f EXCEPT !.LastAuthored = Deref(resp.updatedParsed)]
                 ELSE f
        f2 == [f1 EXCEPT !.Etag = resp.etag, !.Refreshed = tEnd]
        f3 == IF f2.Title = "" THEN [f2 EXCEPT !.Title = resp.title] ELSE f2
    IN [f3 EXCEPT !.Items = SortStable(<<>>, f3.Items)]

(* Lines 69-141: Fetch from the return of client.Do on.  resp.kind is      *)
(*   "transport_nil"  client.Do failed and returned no response            *)
(*   "transport_resp" client.Do failed with a response (redirect policy)   *)
(*   "304"            status 304                                           *)
(*   "parse_error"    any other status, the body does not parse            *)
(*   "ok"             any other status, the body parses                    *)
(* The result is the feed afterwards and what the caller gets: "nil", an   *)
(* error, or "panic" for a nil dereference (response.StatusCode on line 71 *)
(* with no response, *parsedFeed.UpdatedParsed on line 126 with a document *)
(* date gofeed could not parse).                                           *)
FetchResponse(f, resp, t0, ticks, n) ==
    CASE resp.kind = "transport_nil" -> [feed |-> f, res |-> "panic"]
      [] resp.kind = "transport_resp" -> [feed |-> f, res |-> "error"]
      [] resp.kind = "304" -> [feed |-> FetchNotModified(f, t0), res |-> "nil"]
      [] resp.kind = "parse_error" -> [feed |-> f, res |-> "error"]
      [] resp.kind = "ok" ->
            LET merged == [f EXCEPT !.Items =
                              MergeEntries(f.Items, resp.entries, 1, f.Refreshed,
                                           t0, ticks, n)]
            IN IF resp.updated /\ resp.updatedParsed = Nil
                  THEN [feed |-> merged, res |-> "panic"]
                  ELSE [feed |-> FetchFinish(merged, resp,
                                     Reading(t0, ticks, Len(resp.entries) + 1)),
                        res |-> "nil"]

(* Lines 42-141: the whole call, with the response client.Do gets.  The    *)
(* result also tells how many identifiers the loop generated.              *)
Fetch(f, resp, t0, ticks, n) ==
    IF FetchPrecheck(f) # ""
       THEN [feed |-> f, res |-> FetchPrecheck(f), ids |-> 0]
       ELSE [ids |-> Len(resp.entries)] @@ FetchResponse(f, resp, t0, ticks, n)

---------------------------------------------------------------------------
(* The feeds table (schema lines 38-49) and the statements run on it *)

(* query.Record(feed): the row a Feed is written as *)
RowOf(f) ==
    [id |-> f.ID, created |-> f.Created, updated |-> f.Updated,
     refreshed |-> f.Refreshed, last_authored |-> f.LastAuthored,
     title |-> f.Title, url |-> f.URL, etag |-> f.Etag,
     tags |-> f.Tags.elems, items |-> f.Items]

(* Load: the Feed a row is read as *)
FeedOf(r) ==
    [ID |-> r.id, Created |-> r.created, Updated |-> r.updated,
     Refreshed |-> r.refreshed, LastAuthored |-> r.last_authored,
     Title |-> r.title, URL |-> r.url, Etag |-> r.etag,
     Tags |-> TagsOf(r.tags), Items |-> r.items]

RECURSIVE Filter(_, _, _)
Filter(tbl, keep, i) ==
    IF i > Len(tbl) THEN <<>>
    ELSE (IF i \in keep THEN <<tbl[i]>> ELSE <<>>) \o Filter(tbl, keep, i + 1)

Min(S) == CHOOSE x \in S : \A y \in S : x <= y

(* INSERT INTO feeds: id is the PRIMARY KEY, url is UNIQUE *)
InsertRowMutantNoUnique(tbl, r) ==
    IF \E i \in 1..Len(tbl) : tbl[i].id = r.id
        THEN [table |-> tbl, err |-> "constraint"]
        ELSE [table |-> Append(tbl, r), err |-> "nil"]

InsertRow(tbl, r) ==
    IF \E i \in 1..Len(tbl) : tbl[i].id = r.id \/ tbl[i].url = r.url
        THEN [table |-> tbl, err |-> "constraint"]
        ELSE [table |-> Append(tbl, r), err |-> "nil"]

UpdateRowMutantNoUnique(tbl, f) ==
    [table |-> [i \in 1..Len(tbl) |->
                   IF tbl[i].id = f.ID
                      THEN [tbl[i] EXCEPT !.etag = f.Etag, !.items = f.Items,
                                          !.last_authored = f.LastAuthored,
                                          !.refreshed = f.Refreshed,
                                          !.tags = f.Tags.elems,
                                          !.title = f.Title,
                                          !.updated = f.Updated,
                                          !.url = f.URL]
                      ELSE tbl[i]],
     err |-> "nil"]

(* UPDATE feeds SET etag, items, last_authored, refreshed, tags, title,    *)
(* updated, url WHERE id = f.ID; url is UNIQUE                             *)
UpdateRow(tbl, f) ==
    LET hit == {i \in 1..Len(tbl) : tbl[i].id = f.ID}
        new == [i \in 1..Len(tbl) |->
                   IF i \in hit
                      THEN [tbl[i] EXCEPT !.etag = f.Etag, !.items = f.Items,
                                          !.last_authored = f.LastAuthored,
                                          !.refreshed = f.Refreshed,
                                          !.tags = f.Tags.elems,
                                          !.title = f.Title,
                                          !.updated = f.Updated,
                                          !.url = f.URL]
                      ELSE tbl[i]]
    IN IF \E i, j \in 1..Len(tbl) : i # j /\ new[i].url = new[j].url
          THEN [table |-> tbl, err |-> "constraint"]
          ELSE [table |-> new, err |-> "nil"]

---------------------------------------------------------------------------
(* Feed.DeleteItem *)

(* Lines 155-167: the first item with the ID is cut out of Items; without  *)
(* one the call returns ErrNotExistingFeedItem.                            *)
DeleteItemMutantTruncates(f, id) ==
    LET hit == {i \in 1..Len(f.Items) : f.Items[i].ID = id}
    IN IF hit = {} THEN [feed |-> f, err |-> "ErrNotExistingFeedItem"]
       ELSE [feed |-> [f EXCEPT !.Items = SubSeq(@, 1, Min(hit) - 1)],
             err |-> "nil"]

DeleteItem(f, id) ==
    LET hit == {i \in 1..Len(f.Items) : f.Items[i].ID = id}
    IN IF hit = {} THEN [feed |-> f, err |-> "ErrNotExistingFeedItem"]
       ELSE [feed |-> [f EXCEPT !.Items = SubSeq(@, 1, Min(hit) - 1)
                                            \o SubSeq(@, Min(hit) + 1, Len(@))],
             err |-> "nil"]

---------------------------------------------------------------------------
(* Store.FeedPersist *)

(* Lines 247-263: the defaults *)
PersistDefaultsMutantNoBackfill(f, t) ==
    LET f1 == IF f.Title = "" THEN [f EXCEPT !.Title = f.URL] ELSE f
        f2 == IF IsZero(f1.Created) THEN [f1 EXCEPT !.Created = t] ELSE f1
        f3 == IF IsZero(f2.Refreshed) THEN [f2 EXCEPT !.Refreshed = t] ELSE f2
        f4 == IF f3.Tags.nil THEN [f3 EXCEPT !.Tags = TagsOf({})] ELSE f3
    IN [f4 EXCEPT !.Updated = t]

PersistDefaults(f, t) ==
    LET f1 == IF f.Title = "" THEN [f EXCEPT !.Title = f.URL] ELSE f
        f2 == IF IsZero(f1.Created) THEN [f1 EXCEPT !.Created = t] ELSE f1
        f3 == IF IsZero(f2.Refreshed) THEN [f2 EXCEPT !.Refreshed = t - Week] ELSE f2
        f4 == IF f3.Tags.nil THEN [f3 EXCEPT !.Tags = TagsOf({})] ELSE f3
    IN [f4 EXCEPT !.Updated = t]

(* the rows WHERE url = u selects *)
RowsOfURL(tbl, u) == {i \in 1..Len(tbl) : tbl[i].url = u}

(* Line 266: SELECT id, created FROM feeds WHERE url = ? LIMIT 1 loaded    *)
(* into the feed; the error of a miss is dropped and the feed stays as is. *)
PersistLookup(tbl, f) ==
    LET hit == {i \in 1..Len(tbl) : tbl[i].url = f.URL}
    IN IF hit = {} THEN f
       ELSE [f EXCEPT !.ID = tbl[Min(hit)].id, !.Created = tbl[Min(hit)].created]

PersistWriteMutantMergeItems(tbl, found, n) ==
    LET hit == {i \in 1..Len(tbl) : tbl[i].id = found.ID}
        kept == IF hit = {} THEN <<>>
                ELSE SelectSeq(tbl[Min(hit)].items,
                               LAMBDA it : \A j \in 1..Len(found.Items) :
                                              found.Items[j].ID # it.ID)
        w == UpdateRow(tbl, [found EXCEPT !.Items = SortStable(@, kept)])
    IN IF found.ID = ""
          THEN [feed |-> [found EXCEPT !.ID = generateUUID(n + 1)],
                table |-> InsertRow(tbl, RowOf([found EXCEPT !.ID = generateUUID(n + 1)])).table,
                err |-> InsertRow(tbl, RowOf([found EXCEPT !.ID = generateUUID(n + 1)])).err,
                ids |-> 1]
          ELSE [feed |-> found, table |-> w.table, err |-> w.err, ids |-> 0]

(* Lines 268-295: the INSERT when the feed has no ID after the lookup, the *)
(* UPDATE otherwise                                                        *)
PersistWrite(tbl, found, n) ==
    IF found.ID = ""
       THEN LET new == [found EXCEPT !.ID = generateUUID(n + 1)]
                w == InsertRow(tbl, RowOf(new))
            IN [feed |-> new, table |-> w.table, err |-> w.err, ids |-> 1]
       ELSE LET w == UpdateRow(tbl, found)
            IN [feed |-> found, table |-> w.table, err |-> w.err, ids |-> 0]

(* Lines 242-300.  t is the clock, n the identifiers handed out so far.    *)
(* The result is the feed and the table afterwards, the error returned     *)
(* ("nil" for none) and the number of identifiers generated.               *)
FeedPersist(tbl, f, t, n) ==
    IF f.URL = ""
       THEN [feed |-> f, table |-> tbl, err |-> "ErrNoFeedURL", ids |-> 0]
    ELSE PersistWrite(tbl, PersistLookup(tbl, PersistDefaults(f, t)), n)

---------------------------------------------------------------------------
(* Store.FeedDelete *)

(* Lines 304-306 *)
DeleteMissingKeyMutantTitle(f) == f.ID = "" /\ f.Title = ""

DeleteMissingKey(f) == f.ID = "" /\ f.URL = ""

(* Lines 310-316: the WHERE conditions of the DELETE, ANDed; with none the *)
(* statement is DELETE FROM feeds.                                         *)
DeleteWhere(f, r) ==
    /\ f.ID # "" => r.id = f.ID
    /\ f.Title # "" => r.url = f.URL

(* Lines 303-326 *)
FeedDelete(tbl, f) ==
    IF DeleteMissingKey(f)
       THEN [table |-> tbl, err |-> "ErrNoFeedKey"]
       ELSE [table |-> Filter(tbl, {i \in 1..Len(tbl) : ~ DeleteWhere(f, tbl[i])}, 1),
             err |-> "nil"]

---------------------------------------------------------------------------
(* Store.FeedGet *)

(* Lines 222-239: LIMIT 1 with WHERE id = ? when the feed has an ID, else  *)
(* WHERE url = ? when it has a URL.  LoadValue fills the feed from the row *)
(* it finds and returns an error ("ErrNoRows") when it finds none.         *)
FeedGetMutantURLFirst(tbl, f) ==
    LET hit == IF f.URL # "" THEN {i \in 1..Len(tbl) : tbl[i].url = f.URL}
               ELSE {i \in 1..Len(tbl) : tbl[i].id = f.ID}
    IN IF f.ID = "" /\ f.URL = "" THEN [feed |-> f, err |-> "ErrNoFeedKey"]
       ELSE IF hit = {} THEN [feed |-> f, err |-> "ErrNoRows"]
       ELSE [feed |-> FeedOf(tbl[Min(hit)]), err |-> "nil"]

FeedGet(tbl, f) ==
    LET hit == IF f.ID # "" THEN {i \in 1..Len(tbl) : tbl[i].id = f.ID}
               ELSE {i \in 1..Len(tbl) : tbl[i].url = f.URL}
    IN IF f.ID = "" /\ f.URL = "" THEN [feed |-> f, err |-> "ErrNoFeedKey"]
       ELSE IF hit = {} THEN [feed |-> f, err |-> "ErrNoRows"]
       ELSE [feed |-> FeedOf(tbl[Min(hit)]), err |-> "nil"]

---------------------------------------------------------------------------
(* Store.FeedList *)

HasPrefix(str, pre) ==
    Len(str) >= Len(pre) /\ SubSeq(str, 1, Len(pre)) = pre

TrimPrefix(str, pre) ==
    IF HasPrefix(str, pre) THEN SubSeq(str, Len(pre) + 1, Len(str)) ELSE str

(* title LIKE '%x%': x occurs in the text *)
Contains(str, x) ==
    \E i \in 1..(Len(str) - Len(x) + 1) : SubSeq(str, i, i + Len(x) - 1) = x

(* Lines 190-198: one WHERE condition per tag that is not "".  Each names  *)
(* the tags column of the table `thoughts`.                                *)
RECURSIVE TagConditions(_)
TagConditions(tags) ==
    IF tags = <<>> THEN <<>>
    ELSE LET tag == Head(tags)
         IN (IF tag = "" THEN <<>>
             ELSE IF HasPrefix(tag, "-")
                THEN <<[kind |-> "not_exists", of |-> "thoughts",
                        value |-> TrimPrefix(tag, "-")]>>
                ELSE <<[kind |-> "exists", of |-> "thoughts", value |-> tag]>>)
            \o TagConditions(Tail(tags))

(* A tag condition on a row of the table `from`: the statement selects     *)
(* from `from` alone, and a column of another table is no column of it     *)
(* (SQLite: "no such column"), an error of the whole statement.            *)
ConditionFails(c, from) == c.of # from

ConditionHolds(c, r) ==
    IF c.kind = "exists" THEN c.value \in r.tags ELSE c.value \notin r.tags

(* Lines 182-188 *)
SearchHolds(options, r) ==
    /\ options.Search # "" =>
          (Contains(r.title, options.Search) \/ Contains(r.url, options.Search))
    /\ ~ IsZero(options.NotRefreshedSince) =>
          r.refreshed < options.NotRefreshedSince

(* ORDER BY last_authored DESC *)
InsertByLastAuthoredMutantAscending(s, x) ==
    LET k == Cardinality({j \in 1..Len(s) : s[j].last_authored <= x.last_authored})
    IN SubSeq(s, 1, k) \o <<x>> \o SubSeq(s, k + 1, Len(s))

InsertByLastAuthored(s, x) ==
    LET k == Cardinality({j \in 1..Len(s) : s[j].last_authored >= x.last_authored})
    IN SubSeq(s, 1, k) \o <<x>> \o SubSeq(s, k + 1, Len(s))

RECURSIVE OrderByLastAuthored(_, _)
OrderByLastAuthored(sorted, rest) ==
    IF rest = <<>> THEN sorted
    ELSE OrderByLastAuthored(InsertByLastAuthored(sorted, Head(rest)), Tail(rest))

(* LIMIT limit OFFSET offset *)
Window(s, limit, offset) ==
    SubSeq(s, offset + 1, IF offset + limit < Len(s) THEN offset + limit ELSE Len(s))

RECURSIVE MapFeedOf(_)
MapFeedOf(rows) ==
    IF rows = <<>> THEN <<>> ELSE <<FeedOf(Head(rows))>> \o MapFeedOf(Tail(rows))

(* Lines 179-219: the feeds returned and totalCount; a statement that      *)
(* fails gives no feeds and 0, and a warning in the log.                   *)
ListMatch(tbl, options) ==
    LET conds == TagConditions(options.Tags)
    IN {i \in 1..Len(tbl) :
           /\ SearchHolds(options, tbl[i])
           /\ \A k \in 1..Len(conds) : ConditionHolds(conds[k], tbl[i])}

ListFails(options) ==
    LET conds == TagConditions(options.Tags)
    IN \E k \in 1..Len(conds) : ConditionFails(conds[k], "feeds")

(* Lines 203-207: the first statement, SELECT COUNT(id) *)
ListCount(tbl, options) ==
    IF ListFails(options) THEN [totalCount |-> 0, warned |-> TRUE]
    ELSE [totalCount |-> Cardinality(ListMatch(tbl, options)), warned |-> FALSE]

(* Lines 209-216: the second statement, SELECT * ... ORDER BY ... LIMIT    *)
ListLoad(tbl, options) ==
    IF ListFails(options) THEN [feeds |-> <<>>, warned |-> TRUE]
    ELSE [feeds |-> MapFeedOf(Window(OrderByLastAuthored(<<>>,
                                        Filter(tbl, ListMatch(tbl, options), 1)),
                                     options.Limit, options.Offset)),
          warned |-> FALSE]

FeedList(tbl, options) ==
    LET c == ListCount(tbl, options)
        l == ListLoad(tbl, options)
    IN IF c.warned \/ l.warned
          THEN [feeds |-> <<>>, totalCount |-> 0, warned |-> TRUE]
          ELSE [feeds |-> l.feeds, totalCount |-> c.totalCount, warned |-> FALSE]

---------------------------------------------------------------------------
(* What the environment hands to Fetch *)

(* Entries around the cutoff r and the clock t: published before the       *)
(* cutoff and updated after it; published at the cutoff; published after   *)
(* the clock; an updated date alone; no date.                              *)
EntryShapes(r, t) ==
    {[pub |-> Ptr(d), upd |-> Ptr(t)] : d \in {r - 1} \cap Nat}
    \cup {[pub |-> Ptr(r), upd |-> Nil],
          [pub |-> Ptr(t + 1), upd |-> Nil],
          [pub |-> Nil, upd |-> Ptr(t)],
          [pub |-> Nil, upd |-> Nil]}

(* Documents of at most k entries; entry i links to "l<i>" *)
RECURSIVE EntryLists(_, _, _)
EntryLists(r, t, k) ==
    IF k = 0 THEN {<<>>}
    ELSE LET shorter == EntryLists(r, t, k - 1)
         IN shorter \cup
            {Append(s, [link |-> "l" \o ToString(k)] @@ e) :
                s \in {x \in shorter : Len(x) = k - 1}, e \in EntryShapes(r, t)}

NoDocument ==
    [etag |-> "", title |-> "", updated |-> FALSE, updatedParsed |-> Nil,
     entries |-> <<>>]

Documents(r, t) ==
    {[etag |-> m.etag, title |-> "Parsed", updated |-> m.updated,
      updatedParsed |-> m.updatedParsed, entries |-> es] :
        m \in {[etag |-> "e1", updated |-> FALSE, updatedParsed |-> Nil],
               [etag |-> "", updated |-> TRUE, updatedParsed |-> Ptr(t)],
               [etag |-> "e1", updated |-> TRUE, updatedParsed |-> Nil]},
        es \in EntryLists(r, t, MaxEntries)}

Responses(r, t) ==
    {[kind |-> k] @@ NoDocument :
        k \in {"transport_nil", "transport_resp", "304", "parse_error"}}
    \cup {[kind |-> "ok"] @@ d : d \in Documents(r, t)}

(* Items earlier fetches left in a feed last refreshed at r: at most k of  *)
(* them, dated r - 1 or r, in descending order of date; item i has the ID  *)
(* "old<i>" and links to "o<i>".                                           *)
RECURSIVE OldItemLists(_, _)
OldItemLists(r, k) ==
    IF k = 0 THEN {<<>>}
    ELSE LET shorter == OldItemLists(r, k - 1)
         IN shorter \cup
            {Append(p.s, [ID |-> "old" \o ToString(k), URL |-> "o" \o ToString(k),
                          Date |-> p.d]) :
                p \in {q \in [s : {x \in shorter : Len(x) = k - 1}, d : {r - 1, r}] :
                          \A j \in 1..(k - 1) : ~ After(q.d, q.s[j].Date)}}

(* A feed of URL "a" last refreshed at r, with the items that left *)
FetchedFeeds(etag, title, r) ==
    {[ZeroFeed EXCEPT !.URL = "a", !.Etag = etag, !.Title = title,
                      !.Refreshed = r, !.Items = items] :
        items \in OldItemLists(r, MaxItems)}

(* The feeds Fetch is called on at time t: one without URL and one whose   *)
(* URL makes no request; a feed never fetched; a stored feed with the      *)
(* defaults of FeedPersist; a feed with an Etag and a title set by hand.   *)
FetchFeeds(t) ==
    {[ZeroFeed EXCEPT !.URL = url] : url \in {"", BadURL, "a"}}
    \cup FetchedFeeds("", "a", t - Week)
    \cup FetchedFeeds("abc", "Manual", t - 1)

RECURSIVE TickLists(_)
TickLists(k) ==
    IF k = 0 THEN {<<>>}
    ELSE {Append(s, x) : s \in TickLists(k - 1), x \in {0, 1}}

---------------------------------------------------------------------------
(* Actions *)

Tick ==
    /\ now < MaxClock
    /\ now' = now + 1
    /\ UNCHANGED <<feed, table, nextID, pc, request, cancelled, last, procs, bases, fts>>

(* Fetch up to client.Do *)
FetchCall ==
    /\ pc = "idle"
    /\ last = NoCall
    /\ LET r == FetchPrecheck(feed)
       IN IF r # ""
             THEN /\ last' = [op |-> "Fetch", feed0 |-> feed, res |-> r,
                              resp |-> [kind |-> "none"] @@ NoDocument,
                              t0 |-> now, ticks |-> <<>>, n0 |-> nextID,
                              cancelled |-> FALSE]
                  /\ UNCHANGED <<pc, request>>
             ELSE /\ pc' = "inflight"
                  /\ request' = FetchRequest(feed)
                  /\ last' = NoCall
    /\ cancelled' = FALSE
    /\ UNCHANGED <<feed, table, now, nextID, procs, bases, fts>>

(* The scheduler cancels the context of the Fetch in flight *)
Cancel ==
    /\ pc = "inflight"
    /\ ~ cancelled
    /\ cancelled' = TRUE
    /\ UNCHANGED <<feed, table, now, nextID, pc, request, last, procs, bases, fts>>

(* Fetch from the return of client.Do on *)
FetchReturn ==
    /\ pc = "inflight"
    /\ \E resp \in Responses(feed.Refreshed, now) :
       \E ticks \in TickLists(Len(resp.entries)) :
          LET n == Len(resp.entries)
              tEnd == Reading(now, ticks, n + 1)
              r == FetchResponse(feed, resp, now, ticks, nextID)
          IN /\ tEnd <= MaxClock
             /\ Len(feed.Items) + n <= MaxItems
             /\ feed' = r.feed
             /\ now' = tEnd
             /\ nextID' = nextID + n
             /\ last' = [op |-> "Fetch", feed0 |-> feed, res |-> r.res,
                         resp |-> resp, t0 |-> now, ticks |-> ticks,
                         n0 |-> nextID, cancelled |-> cancelled]
    /\ pc' = "idle"
    /\ cancelled' = FALSE
    /\ UNCHANGED <<table, request, procs, bases, fts>>

---------------------------------------------------------------------------
(* What callers hand to the store *)

MaxInserts == 2     \* rows FeedPersist may insert in one run

TableIDs == {table[i].id : i \in 1..Len(table)}

(* Feeds given to FeedPersist: one without URL; new feeds without ID (a    *)
(* bare URL; a title, tags and a LastAuthored time); and feeds carrying an *)
(* ID, one no row has or a stored one, with every field set                *)
PersistArgs ==
    {[ZeroFeed EXCEPT !.Title = "New"]} \cup
    {[ZeroFeed EXCEPT !.URL = url, !.Title = c.Title, !.Tags = c.Tags,
                      !.Refreshed = c.Refreshed, !.LastAuthored = c.LastAuthored] :
        url \in {"a", "b"},
        c \in {[Title |-> "", Tags |-> NilTags, Refreshed |-> 0, LastAuthored |-> 0],
               [Title |-> "New", Tags |-> TagsOf({"tech", "muted"}),
                Refreshed |-> 0, LastAuthored |-> 4]}} \cup
    {[ZeroFeed EXCEPT !.ID = id, !.URL = url, !.Title = "New",
                      !.Tags = TagsOf({"tech"}), !.Created = 1,
                      !.Refreshed = 3, !.LastAuthored = 5] :
        id \in {"x"} \cup TableIDs, url \in {"a", "b"}}

(* Feeds given to FeedDelete: no key (with and without a Title), the ID    *)
(* alone, the URL alone, and feeds with Title and URL, with or without ID  *)
DeleteArgs ==
    {[ZeroFeed EXCEPT !.Title = title] : title \in {"", "New"}} \cup
    {[ZeroFeed EXCEPT !.ID = id] : id \in {"x"} \cup TableIDs} \cup
    {[ZeroFeed EXCEPT !.URL = url] : url \in {"a", "b"}} \cup
    {[ZeroFeed EXCEPT !.ID = id, !.URL = url, !.Title = "New"] :
        id \in {"", "x"} \cup TableIDs, url \in {"a", "b"}}

ListArgs ==
    {[Search |-> "", Tags |-> tags, NotRefreshedSince |-> 0,
      Limit |-> 50, Offset |-> 0] :
        tags \in {<<>>, <<"">>, <<"tech">>, <<"-muted">>, <<"-muted", "tech">>}}
    \cup {[Search |-> "a", Tags |-> <<>>, NotRefreshedSince |-> now - Week + 1,
           Limit |-> 1, Offset |-> 1]}
    \cup {[Search |-> "", Tags |-> <<>>, NotRefreshedSince |-> 0,
           Limit |-> 1, Offset |-> offset] : offset \in {0, 1}}
    \cup {[Search |-> "New", Tags |-> <<>>, NotRefreshedSince |-> 3,
           Limit |-> 50, Offset |-> 0]}

(* Feeds given to FeedGet: no key, the URL alone, and an ID (one no row    *)
(* has or a stored one) alone or with a URL                                *)
GetArgs ==
    {[ZeroFeed EXCEPT !.ID = id, !.URL = url] :
        id \in {"", "x"} \cup TableIDs, url \in {"", "b"}}
    \cup {[ZeroFeed EXCEPT !.URL = "a"]}

DoFeedPersist ==
    /\ pc = "idle"
    /\ \E f \in PersistArgs :
          LET r == FeedPersist(table, f, now, nextID)
          IN /\ nextID + r.ids <= MaxInserts
             /\ table' = r.table
             /\ nextID' = nextID + r.ids
             /\ last' = [op |-> "FeedPersist", arg |-> f, out |-> r.feed,
                         err |-> r.err, table0 |-> table, t |-> now]
    /\ UNCHANGED <<feed, now, pc, request, cancelled, procs, bases, fts>>

DoFeedDelete ==
    /\ pc = "idle"
    /\ \E f \in DeleteArgs :
          LET r == FeedDelete(table, f)
          IN /\ table' = r.table
             /\ last' = [op |-> "FeedDelete", arg |-> f, err |-> r.err,
                         table0 |-> table]
    /\ UNCHANGED <<feed, now, nextID, pc, request, cancelled, procs, bases, fts>>

DoFeedList ==
    /\ pc = "idle"
    /\ \E o \in ListArgs :
          LET r == FeedList(table, o)
          IN last' = [op |-> "FeedList", options |-> o, feeds |-> r.feeds,
                      totalCount |-> r.totalCount, warned |-> r.warned]
    /\ UNCHANGED <<feed, table, now, nextID, pc, request, cancelled, procs, bases, fts>>

DoFeedGet ==
    /\ pc = "idle"
    /\ \E f \in GetArgs :
          LET r == FeedGet(table, f)
          IN last' = [op |-> "FeedGet", arg |-> f, out |-> r.feed, err |-> r.err]
    /\ UNCHANGED <<feed, table, now, nextID, pc, request, cancelled, procs, bases, fts>>

Init ==
    /\ feed = ZeroFeed
    /\ table = <<>>
    /\ now = ClockStart
    /\ nextID = 0
    /\ pc = "idle"
    /\ request = NoRequest
    /\ cancelled = FALSE
    /\ last = NoCall
    /\ procs = NoProcs
    /\ bases = NoRows
    /\ fts = NoRows

Next == Tick \/ DoFeedPersist \/ DoFeedDelete \/ DoFeedList \/ DoFeedGet

Spec == Init /\ [][Next]_vars

(* One Fetch on a feed in memory, at any time of the clock: the store is   *)
(* not touched                                                             *)
InitFetch ==
    /\ now \in ClockStart..MaxClock
    /\ feed \in FetchFeeds(now)
    /\ table = <<>>
    /\ nextID = 0
    /\ pc = "idle"
    /\ request = NoRequest
    /\ cancelled = FALSE
    /\ last = NoCall
    /\ procs = NoProcs
    /\ bases = NoRows
    /\ fts = NoRows

NextFetch == FetchCall \/ Cancel \/ FetchReturn

SpecFetch == InitFetch /\ [][NextFetch]_vars

---------------------------------------------------------------------------
(* The full-text indexes of the schema: bookmarks_fts over bookmarks and   *)
(* thoughts_fts over thoughts, kept by three triggers each.  A row is a    *)
(* record of its rowid and its columns; an index is the bag of the entries *)
(* (rowid and indexed columns) put into it and not deleted from it.        *)

MaxBaseRows == 2    \* rows the two indexed tables hold together
MaxRowid == 3       \* the largest rowid an INSERT hands out

IndexedTables == {"bookmarks", "thoughts"}

(* fts5(title, url, content, content=bookmarks) and                        *)
(* fts5(title, content, content=thoughts)                                  *)
IndexedColumns(tbl) ==
    IF tbl = "bookmarks" THEN {"title", "url", "content"} ELSE {"title", "content"}

(* url ... UNIQUE NOT NULL of bookmarks, title ... UNIQUE NOT NULL of      *)
(* thoughts                                                                *)
UniqueColumn(tbl) == IF tbl = "bookmarks" THEN "url" ELSE "title"

(* the columns a statement writes: the indexed ones, and archived, a       *)
(* column of bookmarks the index does not hold                             *)
BaseColumns(tbl) ==
    IF tbl = "bookmarks" THEN {"title", "url", "content", "archived"}
    ELSE {"title", "content"}

(* the values the statements write into a column *)
ColumnValues(tbl, col) ==
    IF col = UniqueColumn(tbl) THEN {"k1", "k2", "k3"}
    ELSE IF col = "archived" THEN {"0", "1"}
    ELSE IF col = "content" THEN {"", "text"}
    ELSE {"t1"}

(* the rowid SQLite gives a new row of a table without INTEGER PRIMARY KEY: *)
(* one more than the largest in use                                        *)
NextRowid(rows) ==
    IF rows = {} THEN 1
    ELSE (CHOOSE m \in {r.rowid : r \in rows} : \A r \in rows : r.rowid <= m) + 1

(* what a trigger hands to the index for a row: new.rowid, new.title, ...  *)
IndexEntry(tbl, r) ==
    [rowid |-> r.rowid, cols |-> [c \in IndexedColumns(tbl) |-> r[c]]]

(* INSERT INTO x_fts(rowid, ...) VALUES (...) *)
FtsInsert(idx, e) == idx (+) SetToBag({e})

(* INSERT INTO x_fts(x_fts, rowid, ...) VALUES ('delete', ...) *)
FtsDelete(idx, e) == idx (-) SetToBag({e})

(* bookmarks_ai, thoughts_ai *)
AfterInsert(tbl, idx, new) == FtsInsert(idx, IndexEntry(tbl, new))

(* bookmarks_ad, thoughts_ad *)
AfterDelete(tbl, idx, old) == FtsDelete(idx, IndexEntry(tbl, old))

(* bookmarks_au, thoughts_au *)
AfterUpdateMutantNoDelete(tbl, idx, old, new) ==
    FtsInsert(idx, IndexEntry(tbl, new))

AfterUpdate(tbl, idx, old, new) ==
    FtsInsert(FtsDelete(idx, IndexEntry(tbl, old)), IndexEntry(tbl, new))

(* the UNIQUE column of the table admits row r beside the others *)
UniqueHolds(tbl, rows, r) ==
    \A o \in rows : o.rowid # r.rowid => o[UniqueColumn(tbl)] # r[UniqueColumn(tbl)]

BaseRowCount == Cardinality(bases["bookmarks"]) + Cardinality(bases["thoughts"])

(* INSERT INTO bookmarks / thoughts: one row; a statement the UNIQUE       *)
(* column rejects changes nothing and fires no trigger                     *)
InsertBase ==
    /\ BaseRowCount < MaxBaseRows
    /\ \E tbl \in {t \in IndexedTables : NextRowid(bases[t]) <= MaxRowid} :
       \E r \in {[rowid |-> NextRowid(bases[tbl])] @@ v :
                    v \in [BaseColumns(tbl) -> {"k1", "k2", "k3", "0", "1", "", "text", "t1"}]} :
          /\ \A c \in BaseColumns(tbl) : r[c] \in ColumnValues(tbl, c)
          /\ UniqueHolds(tbl, bases[tbl], r)
          /\ bases' = [bases EXCEPT ![tbl] = @ \cup {r}]
          /\ fts' = [fts EXCEPT ![tbl] = AfterInsert(tbl, @, r)]
    /\ UNCHANGED <<feed, table, now, nextID, pc, request, cancelled, last, procs>>

(* UPDATE bookmarks / thoughts SET col = v WHERE rowid = ...: the trigger  *)
(* fires for every updated row, whichever column is written                *)
UpdateBase ==
    /\ \E tbl \in IndexedTables :
       \E old \in bases[tbl] :
       \E col \in BaseColumns(tbl) :
       \E v \in ColumnValues(tbl, col) :
          LET new == [old EXCEPT ![col] = v]
          IN /\ UniqueHolds(tbl, bases[tbl], new)
             /\ bases' = [bases EXCEPT ![tbl] = (@ \ {old}) \cup {new}]
             /\ fts' = [fts EXCEPT ![tbl] = AfterUpdate(tbl, @, old, new)]
    /\ UNCHANGED <<feed, table, now, nextID, pc, request, cancelled, last, procs>>

(* DELETE FROM bookmarks / thoughts WHERE rowid = ... *)
DeleteBase ==
    /\ \E tbl \in IndexedTables :
       \E old \in bases[tbl] :
          /\ bases' = [bases EXCEPT ![tbl] = @ \ {old}]
          /\ fts' = [fts EXCEPT ![tbl] = AfterDelete(tbl, @, old)]
    /\ UNCHANGED <<feed, table, now, nextID, pc, request, cancelled, last, procs>>

(* after migrate: the tables and their indexes are empty *)
InitIndex ==
    /\ feed = ZeroFeed
    /\ table = <<>>
    /\ now = ClockStart
    /\ nextID = 0
    /\ pc = "idle"
    /\ request = NoRequest
    /\ cancelled = FALSE
    /\ last = NoCall
    /\ procs = NoProcs
    /\ bases = [tbl \in IndexedTables |-> {}]
    /\ fts = [tbl \in IndexedTables |-> EmptyBag]

NextIndex == InsertBase \/ UpdateBase \/ DeleteBase

SpecIndex == InitIndex /\ [][NextIndex]_vars

(* C11: after any sequence of inserts, updates and deletes on bookmarks    *)
(* and thoughts, each index holds exactly one entry per row of its table,  *)
(* with the row's current title, url (bookmarks) and content, and no entry *)
(* of a deleted row or of a value a row had before an update.              *)
C11_IndexMirrorsBase ==
    \A tbl \in IndexedTables :
        fts[tbl] = SetToBag({IndexEntry(tbl, r) : r \in bases[tbl]})

(* a row that took the rowid of a deleted row and was updated since: the   *)
(* index holds its entry and no other for that rowid                       *)
C11_Witness ==
    \E r \in bases["bookmarks"] :
        /\ r.rowid = 1
        /\ r.url = "k2"
        /\ r.content = "text"
        /\ \E o \in bases["bookmarks"] : o.rowid = 2 /\ o.url = "k1"
        /\ BagToSet(fts["bookmarks"]) =
              {IndexEntry("bookmarks", x) : x \in bases["bookmarks"]}

---------------------------------------------------------------------------
(* Calls of the store by two callers at once.  A statement is one step;    *)
(* FeedPersist is three (the defaults, the lookup, the write), FeedList    *)
(* two (the count, the load), FeedDelete one.                              *)

Procs == {1, 2}

NoOptions ==
    [Search |-> "", Tags |-> <<>>, NotRefreshedSince |-> 0, Limit |-> 0, Offset |-> 0]

(* a caller between two calls.  miss, raced, path and dup record the path  *)
(* of a FeedPersist: its lookup found no row; since its lookup another     *)
(* caller inserted a row with its URL and that row is still there; the     *)
(* statement it wrote with; a row of another ID had its URL when it wrote. *)
IdleProc ==
    [pc |-> "idle", op |-> "none", arg |-> ZeroFeed, feed |-> ZeroFeed,
     err |-> "", miss |-> FALSE, raced |-> FALSE, path |-> "", dup |-> FALSE,
     options |-> NoOptions, totalCount |-> 0, feeds |-> <<>>, warned |-> FALSE]

(* Feeds the callers persist: a new URL, or a stored ID with the URL "b"   *)
RacePersistArgs ==
    {[ZeroFeed EXCEPT !.URL = url] : url \in {"a", "b"}}
    \cup {[ZeroFeed EXCEPT !.ID = id, !.URL = "b"] : id \in TableIDs}

(* Feeds the callers delete: by ID, and by URL with the title set *)
RaceDeleteArgs ==
    {[ZeroFeed EXCEPT !.ID = id] : id \in TableIDs}
    \cup {[ZeroFeed EXCEPT !.URL = "a", !.Title = "a"]}

RaceListArgs ==
    {[Search |-> "", Tags |-> tags, NotRefreshedSince |-> 0,
      Limit |-> 50, Offset |-> 0] : tags \in {<<>>, <<"tech">>}}

(* FeedPersist, lines 243-263 *)
PersistCall(p) ==
    /\ procs[p].pc = "idle"
    /\ \E f \in RacePersistArgs :
          procs' = [procs EXCEPT ![p] =
                      [IdleProc EXCEPT !.pc = "lookup", !.op = "FeedPersist",
                                       !.arg = f, !.feed = PersistDefaults(f, now)]]
    /\ UNCHANGED <<feed, table, now, nextID, pc, request, cancelled, last, bases, fts>>

(* FeedPersist, line 266 *)
PersistLookupStep(p) ==
    /\ procs[p].pc = "lookup"
    /\ procs' = [procs EXCEPT ![p].pc = "write",
                              ![p].feed = PersistLookup(table, @),
                              ![p].miss = RowsOfURL(table, procs[p].feed.URL) = {}]
    /\ UNCHANGED <<feed, table, now, nextID, pc, request, cancelled, last, bases, fts>>

(* FeedPersist, lines 268-299 *)
PersistWriteStep(p) ==
    /\ procs[p].pc = "write"
    /\ LET w == PersistWrite(table, procs[p].feed, nextID)
       IN /\ nextID + w.ids <= MaxInserts
          /\ table' = w.table
          /\ nextID' = nextID + w.ids
          /\ procs' = [q \in Procs |->
                        IF q = p
                           THEN [procs[p] EXCEPT
                                   !.pc = "done", !.feed = w.feed, !.err = w.err,
                                   !.path = IF w.ids = 1 THEN "insert" ELSE "update",
                                   !.dup = \E i \in 1..Len(table) :
                                              /\ table[i].url = w.feed.URL
                                              /\ table[i].id # w.feed.ID]
                           ELSE [procs[q] EXCEPT !.raced =
                                   /\ procs[q].pc = "write"
                                   /\ RowsOfURL(w.table, procs[q].feed.URL) # {}
                                   /\ \/ @
                                      \/ /\ procs[q].feed.URL = w.feed.URL
                                         /\ w.ids = 1 /\ w.err = "nil"]]
    /\ UNCHANGED <<feed, now, pc, request, cancelled, last, bases, fts>>

(* FeedDelete, lines 303-326 *)
DeleteCall(p) ==
    /\ procs[p].pc = "idle"
    /\ \E f \in RaceDeleteArgs :
          LET r == FeedDelete(table, f)
          IN /\ table' = r.table
             /\ procs' = [q \in Procs |->
                           IF q = p
                              THEN [IdleProc EXCEPT !.pc = "done", !.op = "FeedDelete",
                                                    !.arg = f, !.feed = f, !.err = r.err]
                              ELSE [procs[q] EXCEPT !.raced =
                                      @ /\ RowsOfURL(r.table, procs[q].feed.URL) # {}]]
    /\ UNCHANGED <<feed, now, nextID, pc, request, cancelled, last, bases, fts>>

(* FeedList, lines 180-207 *)
ListCountStep(p) ==
    /\ procs[p].pc = "idle"
    /\ \E o \in RaceListArgs :
          LET c == ListCount(table, o)
          IN procs' = [procs EXCEPT ![p] =
                         [IdleProc EXCEPT !.pc = IF c.warned THEN "done" ELSE "load",
                                          !.op = "FeedList", !.options = o,
                                          !.totalCount = c.totalCount,
                                          !.warned = c.warned]]
    /\ UNCHANGED <<feed, table, now, nextID, pc, request, cancelled, last, bases, fts>>

(* FeedList, lines 209-218 *)
ListLoadStep(p) ==
    /\ procs[p].pc = "load"
    /\ LET l == ListLoad(table, procs[p].options)
       IN procs' = [procs EXCEPT ![p].pc = "done",
                                 ![p].feeds = l.feeds,
                                 ![p].warned = l.warned,
                                 ![p].totalCount = IF l.warned THEN 0 ELSE @]
    /\ UNCHANGED <<feed, table, now, nextID, pc, request, cancelled, last, bases, fts>>

(* the caller has its result and is free for the next call *)
Return(p) ==
    /\ procs[p].pc = "done"
    /\ procs' = [procs EXCEPT ![p] = IdleProc]
    /\ UNCHANGED <<feed, table, now, nextID, pc, request, cancelled, last, bases, fts>>

InitRace ==
    /\ feed = ZeroFeed
    /\ table = <<>>
    /\ now = ClockStart
    /\ nextID = 0
    /\ pc = "idle"
    /\ request = NoRequest
    /\ cancelled = FALSE
    /\ last = NoCall
    /\ procs = [p \in Procs |-> IdleProc]
    /\ bases = NoRows
    /\ fts = NoRows

NextRace ==
    \E p \in Procs :
        \/ PersistCall(p)
        \/ PersistLookupStep(p)
        \/ PersistWriteStep(p)
        \/ DeleteCall(p)
        \/ ListCountStep(p)
        \/ ListLoadStep(p)
        \/ Return(p)

SpecRace == InitRace /\ [][NextRace]_vars

---------------------------------------------------------------------------
(* Two FeedRefresh cycles on one stored feed.  Each caller loads its copy  *)
(* of the row with FeedGet, then runs FeedRefresh on the copy: the Fetch,  *)
(* the lookup of FeedPersist and its write are one step each.              *)

(* the stored feed both cycles refresh *)
StoredFeed ==
    [ZeroFeed EXCEPT !.ID = generateUUID(0), !.URL = "a", !.Title = "a",
                     !.Created = 1, !.Updated = 1,
                     !.Refreshed = ClockStart - Week, !.Tags = TagsOf({})]

(* a caller that has not loaded the feed yet; admitted holds the IDs of    *)
(* the items its Fetch appended                                            *)
IdleRefresh ==
    [pc |-> "idle", feed |-> ZeroFeed, err |-> "", admitted |-> {}]

(* What the server answers at time t: not modified, a body that does not   *)
(* parse, a document without entries, and documents whose entry was        *)
(* published at t (link "l<t>") and carries the Etag "e<t>".               *)
RefreshResponses(t) ==
    {[kind |-> k] @@ NoDocument : k \in {"304", "parse_error"}}
    \cup {[kind |-> "ok", etag |-> "e" \o ToString(t), title |-> "Parsed",
           updated |-> FALSE, updatedParsed |-> Nil, entries |-> es] :
             es \in {<<>>, <<[link |-> "l" \o ToString(t),
                               pub |-> Ptr(t), upd |-> Nil]>>}}

ItemIDs(items) == {items[i].ID : i \in 1..Len(items)}

(* the caller's FeedGet by ID *)
RefreshLoad(p) ==
    /\ procs[p].pc = "idle"
    /\ LET g == FeedGet(table, [ZeroFeed EXCEPT !.ID = StoredFeed.ID])
       IN procs' = [procs EXCEPT ![p].pc = IF g.err = "nil" THEN "loaded" ELSE "done",
                                 ![p].feed = g.feed, ![p].err = g.err]
    /\ UNCHANGED <<feed, table, now, nextID, pc, request, cancelled, last, bases, fts>>

(* FeedRefresh, lines 330-332: the Fetch of the copy *)
RefreshFetch(p) ==
    /\ procs[p].pc = "loaded"
    /\ \E resp \in RefreshResponses(now) :
          LET n == Len(resp.entries)
              r == FetchResponse(procs[p].feed, resp, now, [i \in 1..n |-> 0], nextID)
          IN /\ nextID + n <= MaxInserts
             /\ Len(procs[p].feed.Items) + n <= MaxItems
             /\ nextID' = nextID + n
             /\ procs' = [procs EXCEPT
                            ![p].pc = IF r.res = "nil" THEN "fetched" ELSE "done",
                            ![p].feed = r.feed, ![p].err = r.res,
                            ![p].admitted = ItemIDs(r.feed.Items)
                                               \ ItemIDs(procs[p].feed.Items)]
    /\ UNCHANGED <<feed, table, now, pc, request, cancelled, last, bases, fts>>

(* FeedRefresh, line 334: FeedPersist up to its lookup, lines 243-266 *)
RefreshLookup(p) ==
    /\ procs[p].pc = "fetched"
    /\ procs' = [procs EXCEPT ![p].pc = "write",
                              ![p].feed = PersistLookup(table, PersistDefaults(@, now))]
    /\ UNCHANGED <<feed, table, now, nextID, pc, request, cancelled, last, bases, fts>>

(* FeedRefresh, lines 334-340: the write of FeedPersist, lines 268-299 *)
RefreshWrite(p) ==
    /\ procs[p].pc = "write"
    /\ LET w == PersistWrite(table, procs[p].feed, nextID)
       IN /\ nextID + w.ids <= MaxInserts
          /\ table' = w.table
          /\ nextID' = nextID + w.ids
          /\ procs' = [procs EXCEPT ![p].pc = "done", ![p].feed = w.feed,
                                    ![p].err = w.err]
          /\ last' = [op |-> "FeedRefresh", p |-> p]
    /\ UNCHANGED <<feed, now, pc, request, cancelled, bases, fts>>

InitRefresh ==
    /\ feed = ZeroFeed
    /\ table = <<RowOf(StoredFeed)>>
    /\ now = ClockStart
    /\ nextID = 0
    /\ pc = "idle"
    /\ request = NoRequest
    /\ cancelled = FALSE
    /\ last = NoCall
    /\ procs = [p \in Procs |-> IdleRefresh]
    /\ bases = NoRows
    /\ fts = NoRows

NextRefresh ==
    \/ Tick
    \/ \E p \in Procs :
          \/ RefreshLoad(p)
          \/ RefreshFetch(p)
          \/ RefreshLookup(p)
          \/ RefreshWrite(p)

SpecRefresh == InitRefresh /\ [][NextRefresh]_vars

---------------------------------------------------------------------------
(* Store.FeedRefresh *)

(* Lines 329-341: Fetch, and FeedPersist when Fetch returned nil.  fetch   *)
(* is what Fetch came to, fetched the feed it left; a panic of Fetch is    *)
(* the outcome of FeedRefresh too.                                         *)
FeedRefresh(tbl, f, resp, t0, ticks, n) ==
    LET fr == Fetch(f, resp, t0, ticks, n)
        pr == FeedPersist(tbl, fr.feed,
                          Reading(t0, ticks, Len(resp.entries) + 1), n + fr.ids)
    IN IF fr.res # "nil"
          THEN [feed |-> fr.feed, table |-> tbl, err |-> fr.res, ids |-> fr.ids,
                fetch |-> fr.res, fetched |-> fr.feed]
          ELSE [feed |-> pr.feed, table |-> pr.table, err |-> pr.err,
                ids |-> fr.ids + pr.ids, fetch |-> fr.res, fetched |-> fr.feed]

---------------------------------------------------------------------------
(* One feed object going through calls one after the other: Fetch,         *)
(* FeedPersist, FeedRefresh and DeleteItem, in any order, while the clock  *)
(* advances.                                                               *)

(* the published date of the entry the source reissues in every document:  *)
(* earlier than the first call                                             *)
FixedDate == ClockStart - 1

ReissuedEntry == [link |-> "r", pub |-> Ptr(FixedDate), upd |-> Nil]

(* an entry published at t *)
FreshEntry(t) == [link |-> "l" \o ToString(t), pub |-> Ptr(t), upd |-> Nil]

(* What the server answers at time t: no response, not modified, a body    *)
(* that does not parse, and documents titled "Parsed" with no entry, the   *)
(* reissued entry, or the reissued entry and one published at t.           *)
ChainResponses(t) ==
    {[kind |-> k] @@ NoDocument : k \in {"transport_nil", "304", "parse_error"}}
    \cup {[kind |-> "ok", etag |-> "e1", title |-> "Parsed",
           updated |-> FALSE, updatedParsed |-> Nil, entries |-> es] :
             es \in {<<>>, <<ReissuedEntry>>, <<ReissuedEntry, FreshEntry(t)>>}}

(* the feed objects the calls start from: created with only a URL, with a  *)
(* title set by hand, and without a URL                                    *)
ChainFeeds ==
    {[ZeroFeed EXCEPT !.URL = "a"],
     [ZeroFeed EXCEPT !.URL = "a", !.Title = "Manual"],
     ZeroFeed}

NoTicks(resp) == [i \in 1..Len(resp.entries) |-> 0]

ChainFetch ==
    /\ \E resp \in ChainResponses(now) :
          LET r == Fetch(feed, resp, now, NoTicks(resp), nextID)
          IN /\ nextID + r.ids <= MaxInserts
             /\ Len(feed.Items) + r.ids <= MaxItems
             /\ feed' = r.feed
             /\ nextID' = nextID + r.ids
             /\ last' = [op |-> "Fetch", feed0 |-> feed, res |-> r.res,
                         resp |-> resp, t0 |-> now, ticks |-> NoTicks(resp),
                         n0 |-> nextID, cancelled |-> FALSE]
    /\ UNCHANGED <<table, now, pc, request, cancelled, procs, bases, fts>>

ChainPersist ==
    /\ LET r == FeedPersist(table, feed, now, nextID)
       IN /\ nextID + r.ids <= MaxInserts
          /\ feed' = r.feed
          /\ table' = r.table
          /\ nextID' = nextID + r.ids
          /\ last' = [op |-> "FeedPersist", arg |-> feed, out |-> r.feed,
                      err |-> r.err, table0 |-> table, t |-> now]
    /\ UNCHANGED <<now, pc, request, cancelled, procs, bases, fts>>

ChainRefresh ==
    /\ \E resp \in ChainResponses(now) :
          LET r == FeedRefresh(table, feed, resp, now, NoTicks(resp), nextID)
          IN /\ nextID + r.ids <= MaxInserts
             /\ Len(feed.Items) + Len(resp.entries) <= MaxItems
             /\ feed' = r.feed
             /\ table' = r.table
             /\ nextID' = nextID + r.ids
             /\ last' = [op |-> "FeedRefresh", feed0 |-> feed, resp |-> resp,
                         fetch |-> r.fetch, fetched |-> r.fetched,
                         err |-> r.err, table0 |-> table, t0 |-> now,
                         n0 |-> nextID]
    /\ UNCHANGED <<now, pc, request, cancelled, procs, bases, fts>>

ChainDeleteItem ==
    /\ \E id \in {feed.Items[i].ID : i \in 1..Len(feed.Items)} \cup {"none"} :
          LET r == DeleteItem(feed, id)
          IN /\ feed' = r.feed
             /\ last' = [op |-> "DeleteItem", feed0 |-> feed, id |-> id,
                         err |-> r.err]
    /\ UNCHANGED <<table, now, nextID, pc, request, cancelled, procs, bases, fts>>

InitChain ==
    /\ feed \in ChainFeeds
    /\ table = <<>>
    /\ now = ClockStart
    /\ nextID = 0
    /\ pc = "idle"
    /\ request = NoRequest
    /\ cancelled = FALSE
    /\ last = NoCall
    /\ procs = NoProcs
    /\ bases = NoRows
    /\ fts = NoRows

NextChain ==
    \/ Tick
    \/ ChainFetch
    \/ ChainPersist
    \/ ChainRefresh
    \/ ChainDeleteItem

SpecChain == InitChain /\ [][NextChain]_vars

---------------------------------------------------------------------------
(* Properties of Fetch, over the record of the last call *)

FetchReturned == last.op = "Fetch"

(* a Fetch that got a parsable document and returned nil *)
FetchMerged ==
    FetchReturned /\ last.res = "nil" /\ last.resp.kind = "ok"

(* the clock when entry i of the last Fetch's document was examined *)
NowAt(i) == Reading(last.t0, last.ticks, i)

DateOf(i) == EntryDate(last.resp.entries[i], NowAt(i))

ItemSet(items) == {items[j] : j \in 1..Len(items)}

(* C3: after a successful non-304 Fetch on a feed whose Refreshed was R,   *)
(* Items holds the previous items plus exactly the parsed entries whose    *)
(* Date d has R <= d <= now, now being the clock when the entry is         *)
(* examined: an entry before R or after now is left out, one dated         *)
(* exactly R is kept.                                                      *)
C3_FetchKeepsEntriesInWindow ==
    FetchMerged =>
        LET R == last.feed0.Refreshed
            kept == {i \in 1..Len(last.resp.entries) :
                        R <= DateOf(i) /\ DateOf(i) <= NowAt(i)}
        IN /\ ItemSet(feed.Items) =
                ItemSet(last.feed0.Items) \cup
                {[ID |-> generateUUID(last.n0 + i),
                  URL |-> last.resp.entries[i].link,
                  Date |-> DateOf(i)] : i \in kept}
           /\ Len(feed.Items) = Len(last.feed0.Items) + Cardinality(kept)

(* a Fetch that kept an entry dated exactly R and left out one dated after *)
(* now                                                                     *)
C3_Witness ==
    /\ FetchMerged
    /\ last.feed0.Refreshed > 0
    /\ \E i, j \in 1..Len(last.resp.entries) :
          /\ DateOf(i) = last.feed0.Refreshed
          /\ \E k \in 1..Len(feed.Items) : feed.Items[k].ID = generateUUID(last.n0 + i)
          /\ DateOf(j) > NowAt(j)
          /\ \A k \in 1..Len(feed.Items) : feed.Items[k].ID # generateUUID(last.n0 + j)

(* where an item of the feed stood before the sort: the previous items in  *)
(* their order, then the new ones in parse order                           *)
PreSortPos(it) ==
    IF \E k \in 1..Len(last.feed0.Items) : last.feed0.Items[k] = it
        THEN CHOOSE k \in 1..Len(last.feed0.Items) : last.feed0.Items[k] = it
        ELSE Len(last.feed0.Items) +
             (CHOOSE i \in 1..Len(last.resp.entries) :
                  generateUUID(last.n0 + i) = it.ID)

(* C4: after a successful non-304 Fetch, Items is sorted by Date           *)
(* descending, and items of equal Date keep the order they had before the  *)
(* sort.                                                                   *)
C4_FetchSortsStable ==
    FetchMerged =>
        \A i, j \in 1..Len(feed.Items) :
            i < j =>
                /\ feed.Items[i].Date >= feed.Items[j].Date
                /\ feed.Items[i].Date = feed.Items[j].Date =>
                      PreSortPos(feed.Items[i]) < PreSortPos(feed.Items[j])

(* a Fetch that appended an item with the Date of a previous item, and one *)
(* whose new item moved ahead of a previous one                            *)
C4_Witness ==
    /\ FetchMerged
    /\ Len(last.feed0.Items) = 1
    /\ Len(feed.Items) = 2
    /\ feed.Items[1].Date = feed.Items[2].Date
    /\ feed.Items[1] = last.feed0.Items[1]

(* C5: a Fetch answered with 304 returns nil and leaves every field of the *)
(* feed as it was.                                                         *)
C5_NotModifiedLeavesFeed ==
    (FetchReturned /\ last.resp.kind = "304") =>
        (last.res = "nil" /\ feed = last.feed0)

C5_Witness ==
    /\ FetchReturned
    /\ last.resp.kind = "304"
    /\ feed.Etag = "abc"
    /\ feed.Refreshed # now

(* a Fetch that failed: no URL, a URL that makes no request, a transport   *)
(* error, or a body that does not parse                                    *)
FetchFailed ==
    /\ FetchReturned
    /\ \/ FetchPrecheck(last.feed0) # ""
       \/ last.resp.kind \in {"transport_nil", "transport_resp", "parse_error"}

(* C6: every failing Fetch returns an error to its caller and leaves every *)
(* field of the feed as it was.                                            *)
C6_FailedFetchReturnsError ==
    FetchFailed =>
        (last.res \in {"ErrNoFeedURL", "error"} /\ feed = last.feed0)

(* C7: a Fetch whose context was cancelled while the request was in flight *)
(* returns an error and leaves the feed as it was.                         *)
C7_CancelAbortsFetch ==
    (FetchReturned /\ last.cancelled) =>
        (last.res = "error" /\ feed = last.feed0)

---------------------------------------------------------------------------
(* Properties of the store, over the record of the last call *)

RowsWithURL(tbl, u) == {tbl[i] : i \in {j \in 1..Len(tbl) : tbl[j].url = u}}

(* a step in which FeedPersist is called right after a FeedPersist that    *)
(* returned nil, with the same URL and no ID                               *)
SecondPersistStep ==
    /\ last.op = "FeedPersist"
    /\ last.err = "nil"
    /\ last'.op = "FeedPersist"
    /\ last' # last
    /\ last'.arg.URL = last.arg.URL
    /\ last'.arg.ID = ""

(* C1: two FeedPersist calls in a row with URL u, the second without ID,   *)
(* leave exactly one row with URL u; it has the ID and the created time    *)
(* the row had after the first call, and the Title the second call gave.   *)
C1_PersistTwiceKeepsRow ==
    [][SecondPersistStep =>
          LET u == last.arg.URL
              first == RowsWithURL(table, u)
              second == RowsWithURL(table', u)
          IN /\ Cardinality(second) = 1
             /\ \E r1 \in first : \E r2 \in second :
                   /\ r2.id = r1.id
                   /\ r2.created = r1.created
                   /\ r2.title = IF last'.arg.Title = "" THEN u ELSE last'.arg.Title
      ]_vars

(* C2: when FeedPersist returns nil the table holds exactly one row with   *)
(* the feed's URL, whatever ID the caller gave.                            *)
C2_PersistLeavesOneRow ==
    (last.op = "FeedPersist" /\ last.err = "nil") =>
        Cardinality(RowsWithURL(table, last.arg.URL)) = 1

(* the key FeedDelete is given: the ID when there is one, else the URL *)
KeyMatches(f, r) == IF f.ID # "" THEN r.id = f.ID ELSE r.url = f.URL

(* C8: FeedDelete with a key removes exactly the rows matching the key (by *)
(* ID when there is one, else by URL), leaves the others as they were, and *)
(* returns nil also when no row matches.                                   *)
C8_DeleteRemovesMatching ==
    (last.op = "FeedDelete" /\ ~ (last.arg.ID = "" /\ last.arg.URL = "")) =>
        /\ last.err = "nil"
        /\ table = Filter(last.table0,
                          {i \in 1..Len(last.table0) :
                              ~ KeyMatches(last.arg, last.table0[i])}, 1)

(* C9: FeedDelete with neither ID nor URL returns ErrNoFeedKey and leaves  *)
(* the table as it was.                                                    *)
C9_DeleteWithoutKey ==
    (last.op = "FeedDelete" /\ last.arg.ID = "" /\ last.arg.URL = "") =>
        (last.err = "ErrNoFeedKey" /\ table = last.table0)

(* FeedDelete without key, with a Title, on a table that holds rows *)
C9_Witness ==
    /\ last.op = "FeedDelete"
    /\ last.arg.ID = ""
    /\ last.arg.URL = ""
    /\ last.arg.Title # ""
    /\ last.err = "ErrNoFeedKey"
    /\ Len(table) = MaxInserts

(* a row passes a tag list: every tag without "-" is among its tags, no    *)
(* tag behind a "-" is, "" counts for nothing                              *)
TagsPass(tags, r) ==
    \A k \in 1..Len(tags) :
        \/ tags[k] = ""
        \/ HasPrefix(tags[k], "-") /\ TrimPrefix(tags[k], "-") \notin r.tags
        \/ ~ HasPrefix(tags[k], "-") /\ tags[k] \in r.tags

(* C10: FeedList with a tag list (no other filter, a window that holds all *)
(* rows) returns exactly the stored feeds that pass the tag list.          *)
C10_ListFiltersByTags ==
    (/\ last.op = "FeedList"
     /\ last.options.Search = ""
     /\ IsZero(last.options.NotRefreshedSince)
     /\ last.options.Offset = 0
     /\ last.options.Limit >= Len(table)) =>
        LET pass == {i \in 1..Len(table) : TagsPass(last.options.Tags, table[i])}
        IN /\ ItemSet(last.feeds) = {FeedOf(table[i]) : i \in pass}
           /\ Len(last.feeds) = Cardinality(pass)
           /\ last.totalCount = Cardinality(pass)

(* C12: FeedPersist with a URL returns its feed with an empty Title set to *)
(* the URL, a zero Refreshed set to now minus 7 days, nil Tags set to the  *)
(* empty set and Updated set to now; a Title, Refreshed or Tags the caller *)
(* gave are as given; a zero Created is now when no row has the URL; and   *)
(* every row the call wrote carries these values.  Without URL it returns  *)
(* ErrNoFeedURL and leaves feed and table as they were.                    *)
C12_PersistAppliesDefaults ==
    last.op = "FeedPersist" =>
        LET a == last.arg
            o == last.out
        IN IF a.URL = ""
              THEN last.err = "ErrNoFeedURL" /\ o = a /\ table = last.table0
              ELSE /\ o.Title = (IF a.Title = "" THEN a.URL ELSE a.Title)
                   /\ o.Refreshed = (IF a.Refreshed = 0 THEN last.t - Week
                                                        ELSE a.Refreshed)
                   /\ o.Tags = (IF a.Tags.nil THEN TagsOf({}) ELSE a.Tags)
                   /\ o.Updated = last.t
                   /\ (a.Created = 0 /\ RowsWithURL(last.table0, a.URL) = {})
                         => o.Created = last.t
                   /\ \A i \in 1..Len(table) :
                         (\A j \in 1..Len(last.table0) : last.table0[j] # table[i])
                            => /\ table[i].title = o.Title
                               /\ table[i].refreshed = o.Refreshed
                               /\ table[i].tags = o.Tags.elems
                               /\ table[i].updated = o.Updated

(* a bare URL persisted after the clock moved: the row written has the URL *)
(* as title, now minus a week as refreshed and no tags                     *)
C12_Witness ==
    /\ last.op = "FeedPersist"
    /\ last.err = "nil"
    /\ last.arg.Title = ""
    /\ last.arg.Refreshed = 0
    /\ last.arg.Tags.nil
    /\ last.t > ClockStart
    /\ Len(table) = Len(last.table0) + 1
    /\ table[Len(table)].title = last.arg.URL
    /\ table[Len(table)].refreshed = last.t - Week
    /\ table[Len(table)].tags = {}

(* C13: FeedGet looks up by ID when the feed has one, whatever its URL, by *)
(* URL when it has only a URL, returns ErrNoFeedKey when it has neither,   *)
(* and an error when no row has the key; a row found is loaded into the    *)
(* feed.                                                                   *)
C13_GetByIDThenURL ==
    last.op = "FeedGet" =>
        LET a == last.arg
            byKey == IF a.ID # "" THEN {i \in 1..Len(table) : table[i].id = a.ID}
                     ELSE {i \in 1..Len(table) : table[i].url = a.URL}
        IN IF a.ID = "" /\ a.URL = ""
              THEN last.err = "ErrNoFeedKey" /\ last.out = a
           ELSE IF byKey = {}
              THEN last.err = "ErrNoRows" /\ last.out = a
           ELSE /\ last.err = "nil"
                /\ \E i \in byKey : last.out = FeedOf(table[i])

(* FeedGet with the ID of one row and the URL of another returned the row  *)
(* of the ID                                                               *)
C13_Witness ==
    /\ last.op = "FeedGet"
    /\ last.err = "nil"
    /\ last.arg.ID # ""
    /\ last.arg.URL # ""
    /\ last.out.URL # last.arg.URL
    /\ last.out.ID = last.arg.ID
    /\ \E i \in 1..Len(table) : table[i].url = last.arg.URL

(* C14: a FeedList whose statements ran returns as totalCount the number   *)
(* of rows that pass the search, not-refreshed-since and tag filters,      *)
(* whatever limit and offset, and as feeds the limit/offset window of      *)
(* those rows in descending order of LastAuthored.                         *)
C14_ListCountsAndOrders ==
    (last.op = "FeedList" /\ ~ last.warned) =>
        LET o == last.options
            match == {i \in 1..Len(table) :
                        /\ \/ o.Search = ""
                           \/ Contains(table[i].title, o.Search)
                           \/ Contains(table[i].url, o.Search)
                        /\ \/ o.NotRefreshedSince = 0
                           \/ table[i].refreshed < o.NotRefreshedSince
                        /\ TagsPass(o.Tags, table[i])}
            n == Cardinality(match)
            want == IF n <= o.Offset THEN 0
                    ELSE IF n - o.Offset < o.Limit THEN n - o.Offset
                    ELSE o.Limit
        IN /\ last.totalCount = n
           /\ Len(last.feeds) = want
           /\ \A j \in 1..Len(last.feeds) :
                 /\ \E i \in match : last.feeds[j] = FeedOf(table[i])
                 /\ Cardinality({i \in match : table[i].last_authored >
                                      last.feeds[j].LastAuthored}) <= o.Offset + j - 1
                 /\ Cardinality({i \in match : table[i].last_authored >=
                                      last.feeds[j].LastAuthored}) >= o.Offset + j
           /\ \A j, k \in 1..Len(last.feeds) :
                 j < k => /\ last.feeds[j] # last.feeds[k]
                          /\ last.feeds[j].LastAuthored >= last.feeds[k].LastAuthored

(* a list of limit 1 and offset 1 over two rows returned the row authored  *)
(* earlier, which was stored first, with totalCount 2                      *)
C14_Witness ==
    /\ last.op = "FeedList"
    /\ ~ last.warned
    /\ last.options.Limit = 1
    /\ last.options.Offset = 1
    /\ last.totalCount = 2
    /\ Len(table) = 2
    /\ table[1].last_authored < table[2].last_authored
    /\ last.feeds = <<FeedOf(table[1])>>

---------------------------------------------------------------------------
(* Properties of concurrent callers *)

(* caller p has finished a FeedPersist *)
PersistDone(p) == procs[p].pc = "done" /\ procs[p].op = "FeedPersist"

(* p and q both persisted the same URL, both lookups found no row, one of  *)
(* them inserted while the other was between its lookup and its write, and *)
(* both went down the insert path                                          *)
BothInserted(p, q) ==
    /\ p # q
    /\ PersistDone(p) /\ PersistDone(q)
    /\ procs[p].arg.URL = procs[q].arg.URL
    /\ procs[p].miss /\ procs[q].miss
    /\ procs[p].raced \/ procs[q].raced
    /\ procs[p].path = "insert" /\ procs[q].path = "insert"

(* C15 as stated: when two concurrent FeedPersist calls for one unstored   *)
(* URL both miss the lookup and both take the insert path, the table ends  *)
(* with two rows for that URL.                                             *)
C15_BothInsertsLeaveTwoRows ==
    \A p, q \in Procs :
        BothInserted(p, q) =>
            Cardinality(RowsOfURL(table, procs[p].arg.URL)) = 2

(* C15 amended: when two concurrent FeedPersist calls for one unstored URL *)
(* both miss the lookup and both take the insert path, one INSERT succeeds *)
(* and the other fails on the unique url column: that call returns the     *)
(* error and the table has exactly one row for the URL.                    *)
C15_SecondInsertFails ==
    \A p, q \in Procs :
        BothInserted(p, q) =>
            /\ Cardinality(RowsOfURL(table, procs[p].arg.URL)) = 1
            /\ {procs[p].err, procs[q].err} = {"nil", "constraint"}
            /\ \A r \in {p, q} :
                  procs[r].err = "nil" <=>
                     table[Min(RowsOfURL(table, procs[r].arg.URL))].id = procs[r].feed.ID

C15_Witness ==
    \E p, q \in Procs :
        /\ BothInserted(p, q)
        /\ procs[p].err = "nil"
        /\ procs[q].err = "constraint"

(* C16: under every interleaving of FeedPersist and FeedDelete calls no    *)
(* two rows of the feeds table have the same URL, and a FeedPersist whose  *)
(* INSERT meets a row that already has its URL returns an error and stores *)
(* no row.                                                                 *)
C16_URLUnique ==
    /\ \A i, j \in 1..Len(table) : table[i].url = table[j].url => i = j
    /\ \A p \in Procs :
          (PersistDone(p) /\ procs[p].path = "insert" /\ procs[p].dup) =>
              /\ procs[p].err = "constraint"
              /\ \A i \in 1..Len(table) : table[i].id # procs[p].feed.ID

C16_Witness ==
    \E p \in Procs :
        /\ PersistDone(p) /\ procs[p].path = "insert" /\ procs[p].dup
        /\ procs[p].err = "constraint"
        /\ Cardinality(RowsOfURL(table, procs[p].feed.URL)) = 1

(* C19: the count and the feeds that FeedList returns are of one state of  *)
(* the table: when it returns without a warning and limit and offset cover *)
(* every match, it returns as many feeds as its totalCount, also with      *)
(* FeedPersist and FeedDelete calls running beside it.                     *)
C19_ListIsOneUnit ==
    \A p \in Procs :
        ( /\ procs[p].pc = "done" /\ procs[p].op = "FeedList"
          /\ ~procs[p].warned
          /\ procs[p].options.Offset = 0
          /\ procs[p].options.Limit >= procs[p].totalCount
          /\ procs[p].options.Limit >= Len(table) ) =>
            Len(procs[p].feeds) = procs[p].totalCount

---------------------------------------------------------------------------
(* Properties of concurrent refreshes *)

(* the stored row of the feed both cycles refresh *)
StoredRow == table[Min(RowsOfURL(table, StoredFeed.URL))]

(* C17: the FeedPersist of a refresh cycle overwrites the items, etag and  *)
(* refreshed columns of the row with its own copy: after the later of two  *)
(* unserialized cycles has persisted, the row holds that copy's Items,     *)
(* Etag and Refreshed only, whatever the other cycle had stored.           *)
C17_LaterPersistOverwrites ==
    (last # NoCall /\ procs[last.p].err = "nil") =>
        /\ StoredRow.id = procs[last.p].feed.ID
        /\ StoredRow.items = procs[last.p].feed.Items
        /\ StoredRow.etag = procs[last.p].feed.Etag
        /\ StoredRow.refreshed = procs[last.p].feed.Refreshed

(* both cycles succeeded and the row lacks an item the other one admitted *)
C17_Witness ==
    \E p, q \in Procs :
        /\ p # q /\ last # NoCall /\ last.p = p
        /\ procs[p].pc = "done" /\ procs[p].err = "nil"
        /\ procs[q].pc = "done" /\ procs[q].err = "nil"
        /\ procs[p].admitted # {}
        /\ procs[q].admitted # {}
        /\ procs[q].admitted \cap ItemIDs(StoredRow.items) = {}
        /\ procs[p].admitted \subseteq ItemIDs(StoredRow.items)

---------------------------------------------------------------------------
(* Properties of the request and of the title *)

(* the conditional headers of the request in flight *)
ConditionalHeaders == DOMAIN request \cap {"If-None-Match", "If-Modified-Since"}

(* C18: the request of Fetch carries If-None-Match with the feed's Etag    *)
(* when the Etag is set, otherwise If-Modified-Since with the feed's       *)
(* Refreshed in UTC when Refreshed is not zero, otherwise neither; the two *)
(* headers are never sent together.                                        *)
C18_OneConditionalHeader ==
    pc = "inflight" =>
        /\ Cardinality(ConditionalHeaders) <= 1
        /\ feed.Etag # "" =>
              /\ ConditionalHeaders = {"If-None-Match"}
              /\ request["If-None-Match"] = feed.Etag
        /\ (feed.Etag = "" /\ feed.Refreshed # 0) =>
              /\ ConditionalHeaders = {"If-Modified-Since"}
              /\ request["If-Modified-Since"] = FormatRFC1123(feed.Refreshed)
        /\ (feed.Etag = "" /\ feed.Refreshed = 0) => ConditionalHeaders = {}

(* a request for a feed that has both an Etag and a Refreshed time *)
C18_Witness ==
    /\ pc = "inflight"
    /\ feed.Etag # "" /\ feed.Refreshed # 0
    /\ ConditionalHeaders = {"If-None-Match"}

(* C20: after a successful non-304 Fetch the Title is the parsed feed's    *)
(* title when it was empty before the call, and what it was before the     *)
(* call otherwise.                                                         *)
C20_FetchKeepsTitle ==
    FetchMerged =>
        feed.Title = IF last.feed0.Title = "" THEN last.resp.title
                     ELSE last.feed0.Title

(* a Fetch of a feed with a title of its own got a document with another *)
C20_Witness ==
    /\ FetchMerged
    /\ last.feed0.Title # ""
    /\ last.resp.title # last.feed0.Title
    /\ feed.Title = last.feed0.Title

---------------------------------------------------------------------------
(* Properties of one feed object over a chain of calls *)

(* the feed object has gone through a successful FeedPersist: it has the   *)
(* ID of a stored row                                                      *)
Persisted == feed.ID # "" /\ \E i \in 1..Len(table) : table[i].id = feed.ID

(* C21: once the feed object has gone through a successful FeedPersist, no *)
(* Fetch, FeedRefresh or FeedPersist changes its Title; a FeedPersist call *)
(* that first stores a feed without Title leaves it with Title = URL.      *)
C21_TitleFixedOncePersisted ==
    [][ /\ Persisted => feed'.Title = feed.Title
        /\ (~ Persisted /\ Persisted' /\ last'.op = "FeedPersist"
               /\ feed.Title = "") =>
               feed'.Title = feed'.URL ]_vars

(* a stored feed whose Title is its URL went through a Fetch that parsed a *)
(* document with a title, and has its Title still                          *)
C21_Witness ==
    /\ Persisted
    /\ last.op \in {"Fetch", "FeedRefresh"}
    /\ last.resp.kind = "ok" /\ last.resp.title = "Parsed"
    /\ last.feed0.ID = feed.ID
    /\ last.feed0.Title = feed.URL
    /\ feed.Title = feed.URL
    /\ feed.Refreshed = last.t0

(* the items that came from the reissued entry *)
ReissuedItems(items) ==
    {items[i].ID : i \in {j \in 1..Len(items) : items[j].URL = ReissuedEntry.link}}

(* C22: over any chain of Fetch calls on one feed object, the entry that   *)
(* every document reissues with one published date, earlier than the first *)
(* call, is appended to Items at most once: a Fetch whose feed has a       *)
(* Refreshed after that date appends no item for it.                       *)
C22_ReissuedEntryOnce ==
    /\ Cardinality({i \in 1..Len(feed.Items) :
                        feed.Items[i].URL = ReissuedEntry.link}) <= 1
    /\ (last.op = "Fetch" /\ last.res = "nil"
          /\ last.feed0.Refreshed > FixedDate) =>
            ReissuedItems(feed.Items) = ReissuedItems(last.feed0.Items)

(* the second Fetch of a document with the reissued entry: the feed had    *)
(* its item from an earlier Fetch and got no other                         *)
C22_Witness ==
    /\ last.op = "Fetch" /\ last.res = "nil"
    /\ last.resp.kind = "ok"
    /\ \E i \in 1..Len(last.resp.entries) : last.resp.entries[i] = ReissuedEntry
    /\ last.t0 > last.feed0.Refreshed
    /\ last.feed0.Refreshed > FixedDate
    /\ Cardinality(ReissuedItems(last.feed0.Items)) = 1
    /\ Cardinality(ReissuedItems(feed.Items)) = 1

(* the Fetch of the last FeedRefresh failed: no URL, a transport error or  *)
(* a body that does not parse                                              *)
RefreshFetchFailed ==
    /\ last.op = "FeedRefresh"
    /\ \/ FetchPrecheck(last.feed0) # ""
       \/ last.resp.kind \in {"transport_nil", "transport_resp", "parse_error"}

(* C23: FeedRefresh runs Fetch, then FeedPersist only when Fetch returned  *)
(* without error: when Fetch fails FeedRefresh returns the error of Fetch  *)
(* and the table is as it was; otherwise the table and the result are      *)
(* those of FeedPersist on the feed Fetch left.                            *)
C23_RefreshFetchThenPersist ==
    last.op = "FeedRefresh" =>
        /\ RefreshFetchFailed =>
              /\ last.err \in {"ErrNoFeedURL", "error"}
              /\ table = last.table0
              /\ feed = last.feed0
        /\ ~ RefreshFetchFailed =>
              LET pr == FeedPersist(last.table0, last.fetched, last.t0,
                                    last.n0 + Len(last.resp.entries))
              IN /\ last.err = pr.err
                 /\ table = pr.table
                 /\ feed = pr.feed

(* the items are in descending order of Date *)
SortedByDate(items) ==
    \A i, j \in 1..Len(items) : i < j => ~ After(items[j].Date, items[i].Date)

(* C24: DeleteItem removes the first item with the ID and leaves the       *)
(* others in their order, so sorted Items stay sorted; without such an     *)
(* item it returns the item-not-found error and leaves Items as they were. *)
(* No other field of the feed changes.                                     *)
C24_DeleteItemRemovesOne ==
    last.op = "DeleteItem" =>
        LET old == last.feed0.Items
            hit == {i \in 1..Len(old) : old[i].ID = last.id}
        IN /\ feed = [last.feed0 EXCEPT !.Items = feed.Items]
           /\ IF hit = {}
                 THEN last.err = "ErrNotExistingFeedItem" /\ feed.Items = old
                 ELSE /\ last.err = "nil"
                      /\ Len(feed.Items) = Len(old) - 1
                      /\ \A i \in 1..Len(feed.Items) :
                            feed.Items[i] = IF i < Min(hit) THEN old[i] ELSE old[i + 1]
                      /\ SortedByDate(old) => SortedByDate(feed.Items)

(* the first of two items was deleted and the second is left *)
C24_Witness ==
    /\ last.op = "DeleteItem" /\ last.err = "nil"
    /\ Len(last.feed0.Items) = 2
    /\ last.feed0.Items[1].ID = last.id
    /\ feed.Items = <<last.feed0.Items[2]>>

====
